---- MODULE Spec2Model ----
(***************************************************************************)
(* Model of the Feishu trend bot: the per-subscriber job scheduler         *)
(* (scheduler/job_manager.py), the push orchestrator (scheduler/pusher.py),*)
(* the command router (core/command_handler.py), the config store          *)
(* (storage/database.py) and the webhook handlers (main.py).               *)
(***************************************************************************)
EXTENDS Integers, Sequences, FiniteSets, TLC

VARIABLES
    db,               \* user_configs table: user id -> row, or NoConfig
    jobs,             \* the scheduler's job store: job id -> job
    push_logs,        \* push_logs table, in insertion order
    user_input_mode,  \* main.user_input_mode: user id -> mode, "none" = key absent
    user_temp_state,  \* main.user_temp_state: user id -> draft, NoState = key absent
    last,             \* what the most recently completed operation did
    temp_files,       \* the files in tempfile.gettempdir()
    pushing           \* the push_to_user invocations under way, by thread

vars == <<db, jobs, push_logs, user_input_mode, user_temp_state, last,
          temp_files, pushing>>

----------------------------------------------------------------------------
(* Bounds of the model *)

\* push_logs is append-only; pushes stop being taken once it holds this many rows
MaxLog == 2

\* the most grouped matches a digest of the model holds
MaxItems == 1

----------------------------------------------------------------------------
(* Values *)

\* A user id is a sequence of the tokens that "_" separates in the open_id.
Users == { <<"ou1">>, <<"ou2">>, <<"ou1", "x">> }

\* Python's None where a config object is expected, and as a row id
NoConfig == [absent |-> TRUE]
None == "None"

\* Delivery-time strings a subscriber can type or a card can carry.
TimeStrings == { "09:00", "18:00", "25:00", "0900" }

\* str.split(':') on the strings of the model
PySplitColon(s) ==
    CASE s = "05:00" -> <<"05", "00">>
      [] s = "09:00" -> <<"09", "00">>
      [] s = "18:00" -> <<"18", "00">>
      [] s = "25:00" -> <<"25", "00">>
      [] OTHER       -> <<s>>

\* int(s): IsIntLiteral(s) is FALSE where Python raises ValueError
IsIntLiteral(s) == s \in { "00", "05", "09", "18", "25" }
PyInt(s) ==
    CASE s = "00" -> 0
      [] s = "05" -> 5
      [] s = "09" -> 9
      [] s = "18" -> 18
      [] s = "25" -> 25

\* zoneinfo.ZoneInfo(name): the zone's UTC offset in minutes (zones without
\* daylight saving); ZoneResolves(name) is FALSE where the lookup raises
ZoneResolves(name) == name \in { "Asia/Shanghai", "Asia/Kolkata" }
ZoneInfo(name) ==
    CASE name = "Asia/Shanghai" -> 8 * 60
      [] name = "Asia/Kolkata"  -> 5 * 60 + 30

\* x in list / list.remove(x) / list.append(x) on Python lists
InList(x, l) == \E i \in 1..Len(l) : l[i] = x
FirstIndex(x, l) == CHOOSE i \in 1..Len(l) : l[i] = x /\ \A j \in 1..(i-1) : l[j] # x
ListRemove(l, x) ==
    LET i == FirstIndex(x, l) IN SubSeq(l, 1, i-1) \o SubSeq(l, i+1, Len(l))
ListSet(l) == { l[i] : i \in 1..Len(l) }

----------------------------------------------------------------------------
(* storage/models.py, storage/database.py *)

\* UserConfig(...) as a handler builds it: id is None until read back from a row
UserConfig(user_id, keywords, platforms, push_times, timezone, enabled) ==
    [ id |-> None, user_id |-> user_id, keywords |-> keywords,
      platforms |-> platforms, push_times |-> push_times,
      timezone |-> timezone, report_mode |-> "current", enabled |-> enabled ]

\* UserConfig(user_id=user_id): the dataclass defaults
DefaultUserConfig(user_id) ==
    UserConfig(user_id, <<>>, <<>>, <<>>, "Asia/Shanghai", 1)

\* Database.get_user_config: the row as an object (id set), or None (NoConfig)
get_user_config(d, user_id) ==
    IF d[user_id] = NoConfig THEN NoConfig
    ELSE [ id |-> "row", user_id |-> user_id,
           keywords |-> d[user_id].keywords, platforms |-> d[user_id].platforms,
           push_times |-> d[user_id].push_times, timezone |-> d[user_id].timezone,
           report_mode |-> d[user_id].report_mode, enabled |-> d[user_id].enabled ]

Row(config) ==
    [ keywords |-> config.keywords, platforms |-> config.platforms,
      push_times |-> config.push_times, timezone |-> config.timezone,
      report_mode |-> config.report_mode, enabled |-> config.enabled ]

\* Database.save_user_config: UPDATE when config.id is set, INSERT otherwise;
\* the INSERT raises on the UNIQUE user_id of an existing row.
save_user_config(d, config) ==
    IF config.id # None
    THEN [ db |-> IF d[config.user_id] = NoConfig THEN d
                  ELSE [d EXCEPT ![config.user_id] = Row(config)],
           raised |-> FALSE ]
    ELSE IF d[config.user_id] # NoConfig
         THEN [ db |-> d, raised |-> TRUE ]
         ELSE [ db |-> [d EXCEPT ![config.user_id] = Row(config)], raised |-> FALSE ]

\* Database.get_enabled_users: SELECT * FROM user_configs WHERE enabled = 1
get_enabled_users(d) ==
    { u \in Users : d[u] # NoConfig /\ d[u].enabled = 1 }

\* a log_push that records every attempt as a success
log_push_always_success(logs, user_id, news_count, status, error_msg) ==
    Append(logs, [ user_id |-> user_id, news_count |-> news_count,
                   status |-> "success", error_msg |-> error_msg ])

\* a log_push that keeps only the newest row
log_push_overwrites(logs, user_id, news_count, status, error_msg) ==
    << [ user_id |-> user_id, news_count |-> news_count,
         status |-> status, error_msg |-> error_msg ] >>

\* Database.log_push: one row appended
log_push(logs, user_id, news_count, status, error_msg) ==
    Append(logs, [ user_id |-> user_id, news_count |-> news_count,
                   status |-> status, error_msg |-> error_msg ])

----------------------------------------------------------------------------
(* scheduler/job_manager.py *)

\* id=f"push_{user.user_id}_{push_time}", as its "_"-separated tokens
JobId(user_id, push_time) == <<"push">> \o user_id \o <<push_time>>

\* job.id.startswith(f"push_{user_id}_")
StartsWithUserPrefix(id, user_id) ==
    LET prefix == <<"push">> \o user_id
    IN  Len(id) > Len(prefix) /\ SubSeq(id, 1, Len(prefix)) = prefix

\* the body of the try block of add_user_jobs for one push_time: TRUE when no
\* statement of it raises (the unpacking of split(':'), ZoneInfo, int, replace)
JobAddable(push_time, timezone) ==
    LET parts == PySplitColon(push_time)
    IN  /\ Len(parts) = 2
        /\ ZoneResolves(timezone)
        /\ IsIntLiteral(parts[1]) /\ IsIntLiteral(parts[2])
        /\ PyInt(parts[1]) \in 0..23 /\ PyInt(parts[2]) \in 0..59

\* a conversion that shifts by the whole hours of the offset only
UtcTrigger_whole_hours(push_time, timezone) ==
    LET parts == PySplitColon(push_time)
    IN  [ hour |-> (PyInt(parts[1]) - ZoneInfo(timezone) \div 60) % 24,
          minute |-> PyInt(parts[2]) ]

\* user_time.astimezone(utc_tz): the civil time of day re-expressed in UTC
UtcTrigger(push_time, timezone) ==
    LET parts == PySplitColon(push_time)
        civil == PyInt(parts[1]) * 60 + PyInt(parts[2])
        utc   == (civil - ZoneInfo(timezone)) % (24 * 60)
    IN  [ hour |-> utc \div 60, minute |-> utc % 60 ]

\* A job is [user_id, trigger, due]: due is TRUE from the moment the clock
\* reaches the trigger until the scheduler has run the job. A job add_job
\* registers takes its next run time from the present moment on, so it is not
\* due, also when it replaces or follows a job of the same id that was.

\* scheduler.add_job(..., id=..., replace_existing=True)
add_job(js, id, job) == [ i \in (DOMAIN js) \cup {id} |-> IF i = id THEN job ELSE js[i] ]

\* scheduler.remove_job(id)
remove_job(js, id) == [ i \in (DOMAIN js) \ {id} |-> js[i] ]

\* an add_user_jobs whose try block encloses the whole loop: the first push
\* time that raises ends it
RECURSIVE AddJobsFrom_until_failure(_, _, _)
AddJobsFrom_until_failure(js, user, k) ==
    IF k > Len(user.push_times) THEN js
    ELSE LET push_time == user.push_times[k]
         IN  IF ~JobAddable(push_time, user.timezone) THEN js
             ELSE AddJobsFrom_until_failure(
                      add_job(js, JobId(user.user_id, push_time),
                              [ user_id |-> user.user_id,
                                trigger |-> UtcTrigger(push_time, user.timezone),
                                due |-> FALSE ]),
                      user, k + 1)

\* JobManager.add_user_jobs for the push times from index k on
RECURSIVE AddJobsFrom(_, _, _)
AddJobsFrom(js, user, k) ==
    IF k > Len(user.push_times) THEN js
    ELSE LET push_time == user.push_times[k]
             next == IF JobAddable(push_time, user.timezone)
                     THEN add_job(js, JobId(user.user_id, push_time),
                                  [ user_id |-> user.user_id,
                                    trigger |-> UtcTrigger(push_time, user.timezone),
                                    due |-> FALSE ])
                     ELSE js
         IN  AddJobsFrom(next, user, k + 1)

\* JobManager.add_user_jobs
add_user_jobs(js, user) == AddJobsFrom(js, user, 1)

\* the loop of remove_user_jobs over the list get_jobs() returned
RECURSIVE RemoveMatching(_, _, _)
RemoveMatching(js, ids, user_id) ==
    IF ids = {} THEN js
    ELSE LET id == CHOOSE x \in ids : TRUE
         IN  RemoveMatching(IF StartsWithUserPrefix(id, user_id) THEN remove_job(js, id)
                            ELSE js,
                            ids \ {id}, user_id)

\* a remove_user_jobs that stops after the first job it removes
remove_user_jobs_first_only(js, user_id) ==
    LET mine == { id \in DOMAIN js : StartsWithUserPrefix(id, user_id) }
    IN  IF mine = {} THEN js ELSE remove_job(js, CHOOSE id \in mine : TRUE)

\* JobManager.remove_user_jobs
remove_user_jobs(js, user_id) == RemoveMatching(js, DOMAIN js, user_id)

\* a reload_user_jobs that adds the jobs back without looking at enabled
reload_user_jobs_ignoring_enabled(js, d, user_id) ==
    LET removed == remove_user_jobs(js, user_id)
        user    == get_user_config(d, user_id)
    IN  IF user # NoConfig THEN add_user_jobs(removed, user) ELSE removed

\* JobManager.reload_user_jobs
reload_user_jobs(js, d, user_id) ==
    LET removed == remove_user_jobs(js, user_id)
        user    == get_user_config(d, user_id)
    IN  IF user # NoConfig /\ user.enabled # 0
        THEN add_user_jobs(removed, user)
        ELSE removed

\* the loop of reload_all_jobs over the users still to add
RECURSIVE AddAllUsers(_, _, _)
AddAllUsers(js, d, users) ==
    IF users = {} THEN js
    ELSE LET u == CHOOSE x \in users : TRUE
         IN  AddAllUsers(add_user_jobs(js, get_user_config(d, u)), d, users \ {u})

\* a remove_all_jobs that leaves the store as it is
remove_all_jobs_keeps(js) == js

\* scheduler.remove_all_jobs()
remove_all_jobs(js) == [ i \in {} |-> js[i] ]

\* JobManager.reload_all_jobs: remove_all_jobs, then add_user_jobs per enabled user
reload_all_jobs(js, d) == AddAllUsers(remove_all_jobs(js), d, get_enabled_users(d))

----------------------------------------------------------------------------
(* scheduler/pusher.py *)

\* What the environment does during one push: whether the transport's token
\* request succeeds (send_message raises when it does not), whether the send is
\* accepted, how generate_user_config ends (it returns, it raises while reading
\* the base config, or load_config raises on the temporary config file), what
\* the crawl gives, and the statistics the analysis returns.
TitleLists ==
    UNION { [ 1..n -> [ title : {"t"}, is_new : BOOLEAN ] ] : n \in 0..MaxItems }
StatsChoices ==
    { << >> } \cup { << [ word |-> "AI", titles |-> ts ] >> : ts \in TitleLists }
PushEnvs ==
    [ token_ok : BOOLEAN, send_ok : BOOLEAN,
      gen : { "ok", "base_raises", "load_raises" },
      crawl : { "throws", "empty", "ok" }, stats : StatsChoices ]

\* the items of a title list flagged is_new, in order
RECURSIVE NewOf(_)
NewOf(titles) ==
    IF titles = << >> THEN << >>
    ELSE (IF Head(titles).is_new THEN << Head(titles).title >> ELSE << >>)
         \o NewOf(Tail(titles))

\* the loop of _fetch_and_analyze that builds results from stats
RECURSIVE BuildResults(_, _)
BuildResults(stats, results) ==
    IF stats = << >> THEN results
    ELSE LET stat == Head(stats)
             next == IF stat.titles # << >>
                     THEN [ hotlist |-> add_job(results.hotlist, stat.word, stat.titles),
                            new_items |-> results.new_items \o NewOf(stat.titles) ]
                     ELSE results
         IN  BuildResults(Tail(stats), next)

\* Pusher._fetch_and_analyze: None (NoResults) when the crawl is empty or when
\* anything in it raises, the results dict otherwise
NoResults == [ i \in {} |-> 0 ]
fetch_and_analyze(env) ==
    IF env.crawl = "throws" THEN NoResults
    ELSE IF env.crawl = "empty" THEN NoResults
    ELSE BuildResults(env.stats, [ hotlist |-> [ i \in {} |-> << >> ], new_items |-> << >> ])

\* a check that also takes a digest without grouped matches for no digest
NotResults_empty_hotlist(results) ==
    DOMAIN results = {} \/ DOMAIN results.hotlist = {}

\* Python's "not results" on None or a dict
NotResults(results) == DOMAIN results = {}

\* the news_count loop of push_to_user
RECURSIVE SumLen(_, _)
SumLen(hotlist, words) ==
    IF words = {} THEN 0
    ELSE LET w == CHOOSE x \in words : TRUE
         IN  Len(hotlist[w]) + SumLen(hotlist, words \ {w})
\* a count that leaves the new items out
NewsCount_grouped_only(results) == SumLen(results.hotlist, DOMAIN results.hotlist)

NewsCount(results) ==
    SumLen(results.hotlist, DOMAIN results.hotlist) + Len(results.new_items)

\* a check that only looks for a missing config
NotEnabled_absent_only(user_config) == user_config = NoConfig

\* a test that takes only a negative enabled for disabled
NotEnabled_negative_only(user_config) ==
    user_config = NoConfig \/ user_config.enabled < 0

\* "if not user_config or not user_config.enabled" of push_to_user
NotEnabled(user_config) == user_config = NoConfig \/ user_config.enabled = 0

\* "if not keywords or not platforms" of push_to_user
Incomplete(user_config) == user_config.keywords = << >> \/ user_config.platforms = << >>

\* config/user_config.py generate_user_config: whether it raised, the path it
\* returned, and the temporary files of the invocation it leaves on disk
\* (config_<user_id>.yaml is removed only after load_config has returned)
generate_user_config(user_config, gen) ==
    CASE gen = "base_raises" ->
           [ raised |-> TRUE, keywords_file |-> None, files |-> {} ]
      [] gen = "load_raises" ->
           [ raised |-> TRUE, keywords_file |-> None, files |-> { "config_file" } ]
      [] OTHER ->
           [ raised |-> FALSE, keywords_file |-> "keywords_file",
             files |-> { "keywords_file" } ]

\* config/user_config.py cleanup_temp_files
cleanup_temp_files(files, keywords_file) == files \ { keywords_file }

\* the finally block of push_to_user, keywords_file being the local variable
\* (None unless generate_user_config returned)
Finally(generated) ==
    IF generated.keywords_file # None
    THEN cleanup_temp_files(generated.files, generated.keywords_file)
    ELSE generated.files

\* generate_user_config was not reached
NotGenerated == [ raised |-> FALSE, keywords_file |-> None, files |-> {} ]

\* Pusher.push_to_user: the value returned, the push_logs table afterwards and
\* what the invocation did on the way: text/card say that the guidance text
\* or the digest card went out through the transport, card_tried that
\* send_card_message was called, crawl what the service call gave ("none"
\* when it was not called), digest the results it was turned into, card_count
\* the item count build_message_card put into the card header (0 when no card
\* was built), temp the temporary files left after the finally block.
PushOutcome(ret, logs, text, card_tried, card, crawl, digest, generated) ==
    [ ret |-> ret, logs |-> logs, sent_text |-> text, card_tried |-> card_tried,
      sent_card |-> card, crawl |-> crawl, digest |-> digest,
      card_count |-> IF card_tried THEN NewsCount(digest) ELSE 0,
      temp |-> Finally(generated) ]

push_to_user(d, logs, user_id, env) ==
    LET user_config == get_user_config(d, user_id)
        failed(err) == log_push(logs, user_id, 0, "failed", err)
    IN  IF NotEnabled(user_config)
        THEN PushOutcome(FALSE, logs, FALSE, FALSE, FALSE, "none", NoResults, NotGenerated)
        ELSE IF Incomplete(user_config)
        THEN IF env.token_ok
             THEN PushOutcome(FALSE, logs, TRUE, FALSE, FALSE, "none", NoResults,
                              NotGenerated)
             ELSE PushOutcome(FALSE, failed("token"), FALSE, FALSE, FALSE, "none",
                              NoResults, NotGenerated)
        ELSE LET generated == generate_user_config(user_config, env.gen)
             IN  IF generated.raised
                 THEN PushOutcome(FALSE, failed("config"), FALSE, FALSE, FALSE, "none",
                                  NoResults, generated)
                 ELSE LET results == fetch_and_analyze(env)
                      IN  IF NotResults(results)
                          THEN PushOutcome(TRUE,
                                           log_push(logs, user_id, 0, "success", "None"),
                                           FALSE, FALSE, FALSE, env.crawl, results, generated)
                          ELSE IF ~env.token_ok
                          THEN PushOutcome(FALSE, failed("token"), FALSE, TRUE, FALSE,
                                           env.crawl, results, generated)
                          ELSE IF env.send_ok
                          THEN PushOutcome(TRUE,
                                           log_push(logs, user_id, NewsCount(results),
                                                    "success", "None"),
                                           FALSE, TRUE, TRUE, env.crawl, results, generated)
                          ELSE PushOutcome(FALSE, failed("send"), FALSE, TRUE, FALSE,
                                           env.crawl, results, generated)

----------------------------------------------------------------------------
(* core/command_handler.py *)

\* command = parts[0].lower(), on the command words of the model
Lower(word) == IF word = "/TEST" THEN "/test" ELSE word

CommandWords == { "/start", "/keywords", "/time", "/pause", "/resume", "/test", "/TEST" }

\* the validation loop of _handle_time: TRUE when no time_str is rejected
TimesValid(times) ==
    \A i \in 1..Len(times) :
        LET parts == PySplitColon(times[i])
        IN  /\ Len(parts) = 2
            /\ IsIntLiteral(parts[1]) /\ IsIntLiteral(parts[2])
            /\ PyInt(parts[1]) \in 0..23 /\ PyInt(parts[2]) \in 0..59

CommandResult(d, success, card) == [ db |-> d, success |-> success, card |-> card ]

\* config = self.db.get_user_config(user_id); if not config: config = UserConfig(user_id=user_id)
ConfigOrDefault(d, user_id) ==
    IF get_user_config(d, user_id) = NoConfig THEN DefaultUserConfig(user_id)
    ELSE get_user_config(d, user_id)

\* a _handle_start that writes the default config whether or not a row exists
handle_start_resets(d, user_id) ==
    CommandResult(
        save_user_config(d, [ConfigOrDefault(d, user_id) EXCEPT
                                !.keywords = <<"AI", "blockchain">>,
                                !.platforms = <<"zhihu", "weibo">>,
                                !.push_times = <<"09:00">>,
                                !.timezone = "Asia/Shanghai",
                                !.report_mode = "current",
                                !.enabled = 1]).db,
        TRUE, get_user_config(d, user_id) = NoConfig)

\* CommandHandler._handle_start
handle_start(d, user_id) ==
    IF get_user_config(d, user_id) # NoConfig THEN CommandResult(d, TRUE, FALSE)
    ELSE CommandResult(
             save_user_config(d, UserConfig(user_id, <<"AI", "blockchain">>,
                                            <<"zhihu", "weibo">>, <<"09:00">>,
                                            "Asia/Shanghai", 1)).db,
             TRUE, TRUE)

\* the keyword limit the three places that store keywords test against
MaxKeywords == 10

\* the reply _handle_keywords chooses
handle_keywords_reply(args) ==
    IF args = << >> THEN "empty"
    ELSE IF Len(args) > MaxKeywords THEN "limit"
    ELSE "set"

\* CommandHandler._handle_keywords (args: the non-empty items of the csv)
handle_keywords(d, user_id, args) ==
    IF handle_keywords_reply(args) # "set" THEN CommandResult(d, FALSE, FALSE)
    ELSE CommandResult(
             save_user_config(d, [ConfigOrDefault(d, user_id) EXCEPT !.keywords = args]).db,
             TRUE, FALSE)

\* CommandHandler._handle_time (args: the non-empty items of the csv)
handle_time(d, user_id, args) ==
    IF args = << >> \/ ~TimesValid(args) THEN CommandResult(d, FALSE, FALSE)
    ELSE CommandResult(
             save_user_config(d, [ConfigOrDefault(d, user_id) EXCEPT !.push_times = args]).db,
             TRUE, FALSE)

\* PLATFORM_MAPPING.get(name) for the display names the model sends: two
\* entries of the table, None for any other name
PLATFORM_MAPPING(name) ==
    CASE name = "GitHub" -> "github"
      [] name = "V2EX"   -> "v2ex"
      [] OTHER           -> None

\* the platform ids of the names the table knows, in the order given
RECURSIVE PlatformIds(_)
PlatformIds(names) ==
    IF names = << >> THEN << >>
    ELSE LET pid == PLATFORM_MAPPING(Head(names))
         IN  (IF pid # None THEN <<pid>> ELSE << >>) \o PlatformIds(Tail(names))

\* invalid_sources: the names the table does not know
InvalidSources(names) == { names[i] : i \in { j \in 1..Len(names) : PLATFORM_MAPPING(names[j]) = None } }

\* a _handle_sources that stores the ids of the valid names before it reports
\* the invalid ones
handle_sources_stores_valid(d, user_id, args) ==
    IF args = << >> THEN CommandResult(d, FALSE, FALSE)
    ELSE CommandResult(
             save_user_config(d, [ConfigOrDefault(d, user_id)
                                     EXCEPT !.platforms = PlatformIds(args)]).db,
             InvalidSources(args) = {}, FALSE)

\* CommandHandler._handle_sources (args: the non-empty items of the csv)
handle_sources(d, user_id, args) ==
    IF args = << >> \/ InvalidSources(args) # {} THEN CommandResult(d, FALSE, FALSE)
    ELSE CommandResult(
             save_user_config(d, [ConfigOrDefault(d, user_id)
                                     EXCEPT !.platforms = PlatformIds(args)]).db,
             TRUE, FALSE)

\* valid_modes
valid_modes == { "daily", "current", "incremental" }

\* CommandHandler._handle_mode (args: the words after the command; the code
\* tests the whole remainder against valid_modes)
handle_mode(d, user_id, args) ==
    IF Len(args) # 1 \/ args[1] \notin valid_modes THEN CommandResult(d, FALSE, FALSE)
    ELSE CommandResult(
             save_user_config(d, [ConfigOrDefault(d, user_id)
                                     EXCEPT !.report_mode = args[1]]).db,
             TRUE, FALSE)

\* CommandHandler._handle_test
handle_test(d, user_id) ==
    LET config == get_user_config(d, user_id)
    IN  IF config = NoConfig THEN CommandResult(d, FALSE, FALSE)
        ELSE IF config.keywords = << >> \/ config.platforms = << >>
        THEN CommandResult(d, FALSE, FALSE)
        ELSE CommandResult(d, TRUE, FALSE)

\* CommandHandler._handle_pause
handle_pause(d, user_id) ==
    LET config == get_user_config(d, user_id)
    IN  IF config = NoConfig THEN CommandResult(d, FALSE, FALSE)
        ELSE IF config.enabled = 0 THEN CommandResult(d, TRUE, FALSE)
        ELSE CommandResult(save_user_config(d, [config EXCEPT !.enabled = 0]).db, TRUE, FALSE)

\* CommandHandler._handle_resume
handle_resume(d, user_id) ==
    LET config == get_user_config(d, user_id)
    IN  IF config = NoConfig THEN CommandResult(d, FALSE, FALSE)
        ELSE IF config.enabled = 1 THEN CommandResult(d, TRUE, FALSE)
        ELSE CommandResult(save_user_config(d, [config EXCEPT !.enabled = 1]).db, TRUE, FALSE)

\* CommandHandler.handle_command: the routing table
handle_command(d, user_id, word, args) ==
    LET command == Lower(word)
    IN  CASE command = "/start"    -> handle_start(d, user_id)
          [] command = "/keywords" -> handle_keywords(d, user_id, args)
          [] command = "/sources"  -> handle_sources(d, user_id, args)
          [] command = "/time"     -> handle_time(d, user_id, args)
          [] command = "/mode"     -> handle_mode(d, user_id, args)
          [] command = "/test"     -> handle_test(d, user_id)
          [] command = "/pause"    -> handle_pause(d, user_id)
          [] command = "/resume"   -> handle_resume(d, user_id)
          [] OTHER                 -> CommandResult(d, FALSE, FALSE)

----------------------------------------------------------------------------
(* main.py: state after construction, and the record of the last operation *)

NoPush == [ none |-> TRUE ]
NoUser == << >>

\* user_temp_state without the user's key, and with the key holding a dict
\* that has no "sources" entry
NoState == [ absent |-> TRUE ]
NoSources == [ empty |-> TRUE ]

\* the schedule-relevant part of a stored config: delivery times and enabled flag
Schedule(d, u) ==
    IF d[u] = NoConfig THEN NoConfig
    ELSE [ push_times |-> d[u].push_times, enabled |-> d[u].enabled ]

\* what an operation on user u did: op names the handler branch, changed says
\* that u's stored delivery times or enabled flag differ from before (a created
\* row included), reloaded that reload_user_jobs(u) ran after the last save,
\* push what a push_to_user invocation inside the operation did.
Done(op, u, d1, reloaded, push) ==
    [ op |-> op, user |-> u, changed |-> Schedule(d1, u) # Schedule(db, u),
      reloaded |-> reloaded, push |-> push ]

PushDone(out) ==
    [ ret |-> out.ret, sent_text |-> out.sent_text, card_tried |-> out.card_tried,
      sent_card |-> out.sent_card, crawl |-> out.crawl, digest |-> out.digest,
      card_count |-> out.card_count, temp |-> out.temp,
      appended |-> SubSeq(out.logs, Len(push_logs) + 1, Len(out.logs)) ]

EmptyJobs == [ i \in {} |-> 0 ]

\* the two places push_to_user is called from: the scheduler's executor thread
\* (_sync_push_wrapper) and the webhook handler of "/test"
Invocations == { "job", "test" }
Idle == [ pc |-> "idle", user |-> NoUser ]

\* config/settings.py: the credentials read from the environment ("" when unset)
SettingsChoices == [ FEISHU_APP_ID : { "", "cli_app" }, FEISHU_APP_SECRET : { "", "secret" } ]
ConfiguredSettings == [ FEISHU_APP_ID |-> "cli_app", FEISHU_APP_SECRET |-> "secret" ]

\* a validate that looks at the app id only
validate_app_id_only(settings) == settings.FEISHU_APP_ID # ""

\* Settings.validate: TRUE when it returns, FALSE when it raises ValueError
validate(settings) ==
    settings.FEISHU_APP_ID # "" /\ settings.FEISHU_APP_SECRET # ""

Init ==
    /\ db = [ u \in Users |-> NoConfig ]
    /\ jobs = EmptyJobs
    /\ push_logs = << >>
    /\ user_input_mode = [ u \in Users |-> "none" ]
    /\ user_temp_state = [ u \in Users |-> NoState ]
    /\ last = [ op |-> "init", user |-> NoUser, changed |-> FALSE,
                reloaded |-> FALSE, push |-> NoPush ]
    /\ temp_files = {}
    /\ pushing = [ i \in Invocations |-> Idle ]

\* startup_event after a process restart: the in-memory maps are new, the
\* scheduler is new, and JobManager.start() runs reload_all_jobs
\* startup_event of a process started with the given environment: validate
\* raises before JobManager exists when a credential is missing, and the
\* process ends without a scheduler; otherwise job_manager.start() runs
\* reload_all_jobs on the new, empty scheduler.
Startup(settings) ==
    /\ user_input_mode' = [ u \in Users |-> "none" ]
    /\ user_temp_state' = [ u \in Users |-> NoState ]
    /\ jobs' = IF validate(settings) THEN reload_all_jobs(EmptyJobs, db) ELSE EmptyJobs
    /\ pushing' = [ i \in Invocations |-> Idle ]
    /\ last' = [ op |-> IF validate(settings) THEN "startup" ELSE "startup_failed",
                 user |-> NoUser, changed |-> FALSE,
                 reloaded |-> FALSE, push |-> NoPush ]
    /\ UNCHANGED <<db, push_logs, temp_files>>

startup_event == Startup(ConfiguredSettings)

\* JobManager.reload_all_jobs on the running scheduler
ReloadAll ==
    /\ jobs' = reload_all_jobs(jobs, db)
    /\ last' = [ op |-> "reload_all", user |-> NoUser, changed |-> FALSE,
                 reloaded |-> FALSE, push |-> NoPush ]
    /\ UNCHANGED <<db, push_logs, user_input_mode, user_temp_state, temp_files, pushing>>

\* a wrapper that unregisters the job whose push did not succeed
sync_push_wrapper_unregisters(js, id, out) ==
    IF out.ret THEN js ELSE remove_job(js, id)

\* JobManager._sync_push_wrapper: the job store after the wrapper has run the
\* push of job id with outcome out; the try/except keeps every failure inside,
\* and nothing in it touches the scheduler
sync_push_wrapper(js, id, out) == js

\* what push_to_user can do for user_id, over everything the environment can do
PushOutcomes(d, logs, user_id) ==
    { push_to_user(d, logs, user_id, env) : env \in PushEnvs }

\* the clock reaches the trigger of job id
TriggerDue(id) ==
    /\ id \in DOMAIN jobs
    /\ ~jobs[id].due
    /\ jobs' = [jobs EXCEPT ![id].due = TRUE]
    /\ last' = [ op |-> "due", user |-> jobs[id].user_id, changed |-> FALSE,
                 reloaded |-> FALSE, push |-> NoPush ]
    /\ UNCHANGED <<db, push_logs, user_input_mode, user_temp_state, temp_files, pushing>>

\* the scheduler runs a due job
Fire(id) ==
    /\ id \in DOMAIN jobs
    /\ Len(push_logs) < MaxLog
    /\ \E out \in PushOutcomes(db, push_logs, jobs[id].user_id) :
             /\ push_logs' = out.logs
             /\ jobs' = sync_push_wrapper([jobs EXCEPT ![id].due = FALSE], id, out)
             /\ last' = [ op |-> "fire", user |-> jobs[id].user_id, changed |-> FALSE,
                          reloaded |-> FALSE, push |-> PushDone(out) ]
    /\ UNCHANGED <<db, user_input_mode, user_temp_state, temp_files, pushing>>

----------------------------------------------------------------------------
(* main.py: handle_event *)

TimeArgs == { << >>, <<"09:00">>, <<"18:00">>, <<"09:00", "18:00">>, <<"25:00">>,
              <<"09:00", "0900">> }
KeywordArgs == { << >>, <<"AI">> }

\* the argument lists tried with each command word
CommandArgs(word) ==
    CASE word = "/time"     -> TimeArgs
      [] word = "/keywords" -> KeywordArgs
      [] word = "/test"     -> { << >>, <<"now">> }
      [] OTHER              -> { << >> }

\* user_info.get("time_zone", "Asia/Shanghai") for what get_user_info returns
ProfileTimezones == { "Asia/Shanghai", "Asia/Kolkata" }

\* the default config both handlers create for a subscriber without a row
ProvisionedConfig(user_id, timezone) ==
    UserConfig(user_id, <<"AI", "ecommerce">>, <<"weibo", "zhihu">>, <<"09:00">>, timezone, 1)

\* text.startswith('/') on the texts of the model
StartsWithSlash(text) == text \in CommandWords \cup { "/sources", "/mode", "/foo" }

\* a dispatch that looks for a command before it looks at the input mode
handle_event_branch_command_first(mode, text) ==
    IF StartsWithSlash(text) THEN "command"
    ELSE IF mode \in { "waiting_keyword", "waiting_time" } THEN mode
    ELSE "status"

\* handle_event: the branch that handles a text message, in the order of the
\* code: the sender's input mode first, then the command prefix
handle_event_branch(mode, text) ==
    IF mode = "waiting_keyword" THEN "waiting_keyword"
    ELSE IF mode = "waiting_time" THEN "waiting_time"
    ELSE IF ~StartsWithSlash(text) THEN "status"
    ELSE "command"

\* handle_event, command branch: a text starting with "/" from a subscriber
\* who is not in an input mode. token_ok = FALSE: the transport's token request
\* fails, so the first send of the handler raises and the handler ends there.
TextCommand(u, word, args, token_ok) ==
    /\ handle_event_branch(user_input_mode[u], word) = "command"
    /\ LET r == handle_command(db, u, word, args)
           pushes == token_ok /\ word = "/test" /\ args = << >>
       IN  /\ db' = r.db
           /\ IF pushes
              THEN /\ Len(push_logs) < MaxLog
                   /\ \E out \in PushOutcomes(r.db, push_logs, u) :
                            /\ push_logs' = out.logs
                            /\ last' = Done(Lower(word), u, r.db, FALSE, PushDone(out))
              ELSE /\ push_logs' = push_logs
                   /\ last' = Done(Lower(word), u, r.db, FALSE, NoPush)
    /\ UNCHANGED <<jobs, user_input_mode, user_temp_state, temp_files, pushing>>

\* handle_event, status branch: a text not starting with "/" from a subscriber
\* who is not in an input mode; a missing config is created first
PlainText(u, timezone, token_ok) ==
    /\ handle_event_branch(user_input_mode[u], "hello") = "status"
    /\ LET d1 == IF get_user_config(db, u) = NoConfig /\ token_ok
                 THEN save_user_config(db, ProvisionedConfig(u, timezone)).db
                 ELSE db
       IN  /\ db' = d1
           /\ last' = Done("text", u, d1, FALSE, NoPush)
    /\ UNCHANGED <<jobs, push_logs, user_input_mode, user_temp_state, temp_files, pushing>>

\* the checks of a typed delivery time (waiting_time branch, add_time_confirm)
TimeInputValid(time_str) == TimesValid(<<time_str>>)

\* handle_event, waiting_time branch: the text is taken as a delivery time
TimeCapture(u, text, token_ok) ==
    /\ handle_event_branch(user_input_mode[u], text) = "waiting_time"
    /\ LET config == get_user_config(db, u)
           adds == TimeInputValid(text) /\ ~InList(text, config.push_times)
           d1 == IF adds
                 THEN save_user_config(db,
                          [config EXCEPT !.push_times = Append(@, text)]).db
                 ELSE db
       IN  /\ config # NoConfig
           /\ db' = d1
           /\ jobs' = IF adds THEN reload_user_jobs(jobs, d1, u) ELSE jobs
           /\ user_input_mode' = IF token_ok THEN [user_input_mode EXCEPT ![u] = "none"]
                                  ELSE user_input_mode
           /\ last' = Done("time_capture", u, d1, adds, NoPush)
    /\ UNCHANGED <<push_logs, user_temp_state, temp_files, pushing>>

\* a keyword check without the limit
add_keyword_unlimited(d, config, keyword) ==
    IF keyword = "" THEN [ db |-> d, reply |-> "empty", raised |-> FALSE ]
    ELSE IF ~InList(keyword, config.keywords)
    THEN [ db |-> save_user_config(d, [config EXCEPT !.keywords = Append(@, keyword)]).db,
           reply |-> "added", raised |-> FALSE ]
    ELSE [ db |-> d, reply |-> "exists", raised |-> FALSE ]

\* the keyword checks of the waiting_keyword branch and of add_keyword_confirm
\* (the same code in both): the table afterwards, the reply chosen, and
\* whether the save raised
add_keyword(d, config, keyword) ==
    IF keyword = "" THEN [ db |-> d, reply |-> "empty", raised |-> FALSE ]
    ELSE IF ~InList(keyword, config.keywords) /\ Len(config.keywords) < MaxKeywords
    THEN LET saved == save_user_config(d, [config EXCEPT !.keywords = Append(@, keyword)])
         IN  IF saved.raised THEN [ db |-> d, reply |-> "none", raised |-> TRUE ]
             ELSE [ db |-> saved.db, reply |-> "added", raised |-> FALSE ]
    ELSE IF InList(keyword, config.keywords)
    THEN [ db |-> d, reply |-> "exists", raised |-> FALSE ]
    ELSE [ db |-> d, reply |-> "limit", raised |-> FALSE ]

\* handle_event, waiting_keyword branch: the text is taken as a keyword; the
\* mode is deleted after the replies, so a raising send leaves it set
KeywordCapture(u, text, token_ok) ==
    /\ handle_event_branch(user_input_mode[u], text) = "waiting_keyword"
    /\ LET config == get_user_config(db, u)
           r == add_keyword(db, config, text)
       IN  /\ config # NoConfig
           /\ db' = r.db
           /\ user_input_mode' = IF token_ok THEN [user_input_mode EXCEPT ![u] = "none"]
                                  ELSE user_input_mode
           /\ last' = Done("keyword_capture", u, r.db, FALSE, NoPush)
    /\ UNCHANGED <<jobs, push_logs, user_temp_state, temp_files, pushing>>

----------------------------------------------------------------------------
(* main.py: handle_card_action *)

\* the texts sent while a keyword is awaited, and typed into the keyword form
CaptureTexts == { "", "AI", "k10", "/pause" }

\* the keyword and source actions of the cards
InputCardActions == { "add_keyword_prompt", "add_keyword_confirm", "remove_keyword",
                      "show_sources_menu", "toggle_source", "save_sources" }

\* the delivery times the quick-add buttons of the time menu card carry
PresetTimes == { "09:00", "18:00" }

CardActions == { "show_main_menu", "add_preset_time", "add_custom_time_prompt",
                 "add_time_confirm", "remove_time", "toggle_enabled", "pause" }

\* the values tried with each card action (the "time" of the button's value,
\* or the user_input of the form)
CardValues(action) ==
    CASE action = "add_preset_time"     -> PresetTimes
      [] action = "add_time_confirm"    -> TimeStrings
      [] action = "remove_time"         -> TimeStrings
      [] action = "add_keyword_confirm" -> CaptureTexts
      [] action = "remove_keyword"      -> { "AI", "k10" }
      [] action = "toggle_source"       -> { "weibo" }
      [] OTHER                          -> { "" }

CardResult(d, js, mode, reloaded) ==
    [ db |-> d, jobs |-> js, mode |-> mode, reloaded |-> reloaded ]

\* config.set_push_times(push_times); db.save_user_config(config);
\* job_manager.reload_user_jobs(user_id): a raising save ends the handler
SaveTimesAndReload(d, js, mode, config, push_times) ==
    LET saved == save_user_config(d, [config EXCEPT !.push_times = push_times])
    IN  IF saved.raised THEN CardResult(d, js, mode, FALSE)
        ELSE CardResult(saved.db, reload_user_jobs(js, saved.db, config.user_id), mode, TRUE)

\* the branch of handle_card_action for action_type, entered with the config
\* object the handler holds (read from the row, or just created and inserted)
card_branch(d, js, mode, config, action, value, token_ok) ==
    LET u == config.user_id
    IN  CASE action = "add_preset_time" ->
               IF value # "" /\ ~InList(value, config.push_times)
               THEN SaveTimesAndReload(d, js, mode, config, Append(config.push_times, value))
               ELSE CardResult(d, js, mode, FALSE)
          [] action = "add_time_confirm" ->
               IF TimeInputValid(value) /\ ~InList(value, config.push_times)
               THEN SaveTimesAndReload(d, js, mode, config, Append(config.push_times, value))
               ELSE CardResult(d, js, mode, FALSE)
          [] action = "remove_time" ->
               IF InList(value, config.push_times)
               THEN SaveTimesAndReload(d, js, mode, config, ListRemove(config.push_times, value))
               ELSE CardResult(d, js, mode, FALSE)
          [] action = "add_custom_time_prompt" ->
               CardResult(d, js, [mode EXCEPT ![u] = "waiting_time"], FALSE)
          [] action = "toggle_enabled" ->
               LET saved == save_user_config(d,
                                [config EXCEPT !.enabled = IF @ = 1 THEN 0 ELSE 1])
               IN  IF saved.raised THEN CardResult(d, js, mode, FALSE)
                   ELSE CardResult(saved.db, reload_user_jobs(js, saved.db, u), mode, TRUE)
          [] action = "pause" ->
               LET r == handle_command(d, u, "/pause", << >>)
               IN  IF token_ok
                   THEN CardResult(r.db, reload_user_jobs(js, r.db, u), mode, TRUE)
                   ELSE CardResult(r.db, js, mode, FALSE)
          [] OTHER -> CardResult(d, js, mode, FALSE)

InputResult(d, mode, temp) == [ db |-> d, mode |-> mode, temp |-> temp ]

\* show_sources_menu: the draft starts as a copy of the committed list
show_sources_menu(temp, config) ==
    [temp EXCEPT ![config.user_id] = [ sources |-> config.platforms ]]

\* toggle_source: sources.remove(source) when the draft lists it, append
\* otherwise; a dict without the "sources" key raises KeyError
toggle_source(temp, config, source) ==
    LET u  == config.user_id
        t1 == IF temp[u] = NoState THEN [ sources |-> config.platforms ] ELSE temp[u]
    IN  IF t1 = NoSources THEN temp
        ELSE [temp EXCEPT ![u] =
                [ sources |-> IF InList(source, t1.sources)
                              THEN ListRemove(t1.sources, source)
                              ELSE Append(t1.sources, source) ]]

\* a save that commits the draft and keeps it
save_sources_keeps_draft(d, temp, config) ==
    LET u == config.user_id
    IN  IF temp[u] = NoState \/ temp[u] = NoSources THEN [ db |-> d, temp |-> temp ]
        ELSE [ db |-> save_user_config(d, [config EXCEPT !.platforms = temp[u].sources]).db,
               temp |-> temp ]

\* save_sources: with a draft, set_platforms(draft), save, delete the "sources"
\* key; without one, nothing
save_sources(d, temp, config) ==
    LET u == config.user_id
    IN  IF temp[u] = NoState \/ temp[u] = NoSources THEN [ db |-> d, temp |-> temp ]
        ELSE LET saved == save_user_config(d, [config EXCEPT !.platforms = temp[u].sources])
             IN  IF saved.raised THEN [ db |-> d, temp |-> temp ]
                 ELSE [ db |-> saved.db, temp |-> [temp EXCEPT ![u] = NoSources] ]

\* the keyword and source branches of handle_card_action; a raising save or a
\* missing "sources" key ends the handler with nothing further changed
card_input_branch(d, mode, temp, config, action, value) ==
    LET u == config.user_id
    IN  CASE action = "add_keyword_prompt" ->
               InputResult(d, [mode EXCEPT ![u] = "waiting_keyword"], temp)
          [] action = "add_keyword_confirm" ->
               InputResult(add_keyword(d, config, value).db, mode, temp)
          [] action = "remove_keyword" ->
               IF InList(value, config.keywords)
               THEN InputResult(
                        save_user_config(d, [config EXCEPT
                                               !.keywords = ListRemove(@, value)]).db,
                        mode, temp)
               ELSE InputResult(d, mode, temp)
          [] action = "show_sources_menu" ->
               InputResult(d, mode, show_sources_menu(temp, config))
          [] action = "toggle_source" ->
               InputResult(d, mode, toggle_source(temp, config, value))
          [] action = "save_sources" ->
               InputResult(save_sources(d, temp, config).db, mode,
                           save_sources(d, temp, config).temp)
          [] OTHER -> InputResult(d, mode, temp)

\* the number of send_card_message / send_text_message calls the branch of
\* action_type makes for a subscriber whose row exists, the transport working
card_replies(temp, config, action, value) ==
    LET u == config.user_id
        added == 2   \* the refreshed menu card and the confirmation text
    IN  CASE action \in { "show_main_menu", "show_sources_menu", "add_keyword_prompt",
                          "add_custom_time_prompt", "pause" } -> 1
          [] action = "add_keyword_confirm" ->
               IF value # "" /\ ~InList(value, config.keywords)
                             /\ Len(config.keywords) < MaxKeywords
               THEN added ELSE 1
          [] action = "remove_keyword" ->
               IF InList(value, config.keywords) THEN added ELSE 0
          [] action = "toggle_source" ->
               IF temp[u] = NoSources THEN 0 ELSE 1
          [] action = "save_sources" ->
               IF temp[u] = NoState \/ temp[u] = NoSources THEN 0 ELSE added
          [] action = "add_preset_time" ->
               IF value # "" /\ ~InList(value, config.push_times) THEN added
               ELSE IF InList(value, config.push_times) THEN 1
               ELSE 0
          [] action = "add_time_confirm" ->
               IF TimeInputValid(value) /\ ~InList(value, config.push_times)
               THEN added ELSE 1
          [] action = "remove_time" ->
               IF InList(value, config.push_times) THEN added ELSE 0
          [] action = "toggle_enabled" -> added
          [] OTHER -> 0

\* handle_card_action: a subscriber without a row gets the default config
\* inserted first (get_user_info needs the token), then the action's branch runs
\* the body of handle_card_action from the config read to the return, run on
\* store d, job store js, modes mode and drafts temp. It holds no await, so
\* the event loop runs it as one step.
card_action_result(d, js, mode, temp, u, action, value, timezone, token_ok) ==
    LET existing == get_user_config(d, u)
        created  == ProvisionedConfig(u, timezone)
        aborted  == existing = NoConfig /\ ~token_ok
        config   == IF existing # NoConfig THEN existing ELSE created
        d0 == IF existing # NoConfig \/ aborted THEN d
              ELSE save_user_config(d, created).db
        r == IF aborted THEN CardResult(d, js, mode, FALSE)
             ELSE card_branch(d0, js, mode, config, action, value, token_ok)
        t == IF aborted \/ action \notin InputCardActions
             THEN InputResult(r.db, r.mode, temp)
             ELSE card_input_branch(d0, mode, temp, config, action, value)
    IN  [ db |-> t.db, jobs |-> r.jobs, mode |-> t.mode, temp |-> t.temp,
          reloaded |-> r.reloaded ]

CardAction(u, action, value, timezone, token_ok) ==
    LET done == card_action_result(db, jobs, user_input_mode, user_temp_state,
                                   u, action, value, timezone, token_ok)
    IN  /\ db' = done.db
        /\ jobs' = done.jobs
        /\ user_input_mode' = done.mode
        /\ user_temp_state' = done.temp
        /\ last' = Done(action, u, done.db, done.reloaded, NoPush)
        /\ UNCHANGED <<push_logs, temp_files, pushing>>

----------------------------------------------------------------------------(* scheduler/pusher.py: push_to_user step by step *)

\* os.path.join(tempfile.gettempdir(), f"config_{user_id}.yaml") and
\* f"keywords_{user_id}.txt": the scratch files are named after the subscriber
temp_config_file(user_id) == [ kind |-> "config", user_id |-> user_id ]
temp_keywords_file(user_id) == [ kind |-> "keywords", user_id |-> user_id ]

\* push_to_user in steps, for two invocations that run in different threads.
\* PushBegin: invocation i is called for subscriber u (a job of u fires, or u
\* sends "/test"), passes the enabled and completeness tests and writes the
\* temp config file in generate_user_config.
PushBegin(i, u) ==
    /\ pushing[i].pc = "idle"
    /\ i = "job" => \E id \in DOMAIN jobs : jobs[id].user_id = u
    /\ i = "test" => handle_event_branch(user_input_mode[u], "/test") = "command"
    /\ Len(push_logs) + Cardinality({ j \in Invocations : pushing[j].pc # "idle" }) < MaxLog
    /\ ~NotEnabled(get_user_config(db, u))
    /\ ~Incomplete(get_user_config(db, u))
    /\ temp_files' = temp_files \cup { temp_config_file(u) }
    /\ pushing' = [pushing EXCEPT ![i] = [ pc |-> "config_written", user |-> u ]]
    /\ last' = [ op |-> "push_begin", user |-> u, changed |-> FALSE,
                 reloaded |-> FALSE, push |-> NoPush ]
    /\ UNCHANGED <<db, jobs, push_logs, user_input_mode, user_temp_state>>

\* load_config(temp_config_file): raises when the file is not there
PushLoadConfig(i) ==
    /\ pushing[i].pc = "config_written"
    /\ pushing' = [pushing EXCEPT ![i].pc =
                      IF temp_config_file(pushing[i].user) \in temp_files
                      THEN "config_loaded" ELSE "raised"]
    /\ last' = [ op |-> "push_load", user |-> pushing[i].user, changed |-> FALSE,
                 reloaded |-> FALSE, push |-> NoPush ]
    /\ UNCHANGED <<db, jobs, push_logs, user_input_mode, user_temp_state, temp_files>>

\* the rest of generate_user_config: remove the temp config file if it
\* exists, write the temp keywords file; the service call starts
PushWriteKeywords(i) ==
    /\ pushing[i].pc = "config_loaded"
    /\ temp_files' = (temp_files \ { temp_config_file(pushing[i].user) })
                        \cup { temp_keywords_file(pushing[i].user) }
    /\ pushing' = [pushing EXCEPT ![i].pc = "fetching"]
    /\ last' = [ op |-> "push_generate", user |-> pushing[i].user, changed |-> FALSE,
                 reloaded |-> FALSE, push |-> NoPush ]
    /\ UNCHANGED <<db, jobs, push_logs, user_input_mode, user_temp_state>>

\* the end of push_to_user: after a raise in generate_user_config, the except
\* logs the failure and the finally finds keywords_file None; otherwise the
\* service call returns, the digest goes out and is logged, and the finally
\* removes the keywords file
PushFinish(i) ==
    /\ pushing[i].pc \in { "raised", "fetching" }
    /\ LET u == pushing[i].user
       IN  IF pushing[i].pc = "raised"
           THEN /\ push_logs' = log_push(push_logs, u, 0, "failed", "config")
                /\ temp_files' = temp_files
           ELSE /\ \E out \in { push_to_user(db, push_logs, u, env) :
                                   env \in { e \in PushEnvs : e.gen = "ok" } } :
                        push_logs' = out.logs
                /\ temp_files' = cleanup_temp_files(temp_files, temp_keywords_file(u))
    /\ pushing' = [pushing EXCEPT ![i] = Idle]
    /\ last' = [ op |-> "push_end", user |-> pushing[i].user, changed |-> FALSE,
                 reloaded |-> FALSE, push |-> NoPush ]
    /\ UNCHANGED <<db, jobs, user_input_mode, user_temp_state>>

----------------------------------------------------------------------------

\* The environment's part of an inbound operation is drawn only where the
\* handler reads it: the profile's timezone when a default config is created,
\* the token request where a raising send changes what the handler does.
ProfileChoices(u) ==
    IF db[u] = NoConfig THEN ProfileTimezones ELSE { "Asia/Shanghai" }
TokenChoices(relevant) == IF relevant THEN BOOLEAN ELSE { TRUE }

\* a text message starting with "/": any command word with its argument lists
Commands(u, words) ==
    \E word \in words :
        \E args \in CommandArgs(word), token_ok \in TokenChoices(Lower(word) = "/test") :
            TextCommand(u, word, args, token_ok)

\* a text message not starting with "/", or any text while an input is awaited
Texts(u) ==
    \/ \E timezone \in ProfileChoices(u), token_ok \in TokenChoices(db[u] = NoConfig) :
         PlainText(u, timezone, token_ok)
    \/ \E text \in TimeStrings \cup {"/pause"}, token_ok \in BOOLEAN :
         TimeCapture(u, text, token_ok)

\* a card callback
Cards(u) ==
    \E action \in CardActions :
        \E value \in CardValues(action), timezone \in ProfileChoices(u),
           token_ok \in TokenChoices(db[u] = NoConfig \/ action = "pause") :
            CardAction(u, action, value, timezone, token_ok)

\* The scheduling system. Subscriber ou1 sends every inbound operation that can
\* touch the config store or the job store; subscriber ou2 only starts, pauses
\* and resumes. The process restarts and reload_all_jobs runs. Pushes (a fired
\* job, /test) change neither store and are left to SpecPush.
FullUsers == { <<"ou1">> }
LightUsers == { <<"ou2">> }
PairUsers == FullUsers \cup LightUsers
ScheduleWords == { "/start", "/time", "/pause", "/resume" }
LightWords == { "/start", "/pause", "/resume" }

Next ==
    \/ startup_event
    \/ ReloadAll
    \/ \E u \in FullUsers : Commands(u, ScheduleWords)
    \/ \E u \in FullUsers : Texts(u)
    \/ \E u \in FullUsers : Cards(u)
    \/ \E u \in LightUsers : Commands(u, LightWords)

Spec == Init /\ [][Next]_vars

\* The push system: subscriber ou1 sends text messages (the /test push
\* included), the process restarts, and the scheduler fires the live jobs.
NextPush ==
    \/ startup_event
    \/ \E id \in DOMAIN jobs : Fire(id)
    \/ \E u \in FullUsers : Commands(u, CommandWords)
    \/ \E u \in FullUsers :
         \E timezone \in ProfileChoices(u), token_ok \in TokenChoices(db[u] = NoConfig) :
             PlainText(u, timezone, token_ok)

SpecPush == Init /\ [][NextPush]_vars

\* The conversation system: subscriber ou1 sets keywords by command, by
\* free text and by the keyword form, edits the source draft, asks for a
\* delivery time prompt, returns to the main menu and sends texts; the process
\* restarts. Removing keywords and pausing are left to the other systems.
Nine == << "k1", "k2", "k3", "k4", "k5", "k6", "k7", "k8", "k9" >>
InputKeywordArgs == { << >>, Nine, Nine \o <<"k10">>, Nine \o <<"k10", "k11">> }
InputCards(u) ==
    \E action \in (InputCardActions \ { "remove_keyword" })
                      \cup { "show_main_menu", "add_custom_time_prompt" },
       timezone \in { "Asia/Shanghai" }, token_ok \in BOOLEAN :
        \E value \in CardValues(action) : CardAction(u, action, value, timezone, token_ok)

NextInput ==
    \/ startup_event
    \/ \E u \in FullUsers, args \in InputKeywordArgs, token_ok \in BOOLEAN :
         TextCommand(u, "/keywords", args, token_ok)
    \/ \E u \in FullUsers, token_ok \in BOOLEAN : PlainText(u, "Asia/Shanghai", token_ok)
    \/ \E u \in FullUsers, text \in CaptureTexts, token_ok \in BOOLEAN :
         KeywordCapture(u, text, token_ok)
    \/ \E u \in FullUsers, text \in { "18:00", "/pause" }, token_ok \in BOOLEAN :
         TimeCapture(u, text, token_ok)
    \/ \E u \in FullUsers : InputCards(u)

SpecInput == Init /\ [][NextInput]_vars

\* The delivery-time system: subscriber ou1 starts, sets times by command,
\* adds and removes times by card callbacks whose value is whatever the
\* callback body carries, and toggles delivery; the process restarts.
CallbackTimes == TimeStrings \cup { "" }
StoredTimeArgs == { <<"18:00">>, <<"09:00", "09:00">>, <<"09:00", "25:00">> }

NextTimes ==
    \/ startup_event
    \/ \E u \in FullUsers : TextCommand(u, "/start", << >>, TRUE)
    \/ \E u \in FullUsers, args \in StoredTimeArgs : TextCommand(u, "/time", args, TRUE)
    \/ \E u \in FullUsers, value \in CallbackTimes :
         CardAction(u, "add_preset_time", value, "Asia/Shanghai", TRUE)
    \/ \E u \in FullUsers, value \in TimeStrings :
         CardAction(u, "remove_time", value, "Asia/Shanghai", TRUE)
    \/ \E u \in FullUsers : CardAction(u, "toggle_enabled", "", "Asia/Shanghai", TRUE)

SpecTimes == Init /\ [][NextTimes]_vars

\* The command system: subscriber ou1 sets keywords, sources, times and the
\* report mode by command with valid and invalid arguments, sends an unknown
\* command, and edits the source draft by cards; the process restarts.
KeywordCsvArgs == { << >>, <<"AI", "AI">> }
SourceArgs == { << >>, <<"GitHub">>, <<"GitHub", "GitHub">>, <<"GitHub", "Gitee">> }
TimeCsvArgs == { <<"18:00">>, <<"09:00", "0900">> }
ModeArgs == { << >>, <<"daily">>, <<"weekly">> }
ToggledSources == { "github" }

NextCommands ==
    \/ startup_event
    \/ \E u \in FullUsers, args \in KeywordCsvArgs : TextCommand(u, "/keywords", args, TRUE)
    \/ \E u \in FullUsers, args \in SourceArgs : TextCommand(u, "/sources", args, TRUE)
    \/ \E u \in FullUsers, args \in TimeCsvArgs : TextCommand(u, "/time", args, TRUE)
    \/ \E u \in FullUsers, args \in ModeArgs : TextCommand(u, "/mode", args, TRUE)
    \/ \E u \in FullUsers : TextCommand(u, "/foo", << >>, TRUE)
    \/ \E u \in FullUsers :
         CardAction(u, "show_sources_menu", "", "Asia/Shanghai", TRUE)
    \/ \E u \in FullUsers, source \in ToggledSources :
         CardAction(u, "toggle_source", source, "Asia/Shanghai", TRUE)
    \/ \E u \in FullUsers : CardAction(u, "save_sources", "", "Asia/Shanghai", TRUE)

SpecCommands == Init /\ [][NextCommands]_vars

\* The concurrent-callback system: card callbacks of subscriber ou1 that each
\* read, change and save the config arrive in any order. A handler suspends
\* only at `await request.json()`, before it reads the config, so concurrent
\* callbacks run their bodies one whole handler after the other.
ConcKeywords == { "k10", "AI" }

NextConc ==
    \/ startup_event
    \/ \E u \in FullUsers, keyword \in ConcKeywords :
         CardAction(u, "add_keyword_confirm", keyword, "Asia/Shanghai", TRUE)
    \/ \E u \in FullUsers, keyword \in ConcKeywords :
         CardAction(u, "remove_keyword", keyword, "Asia/Shanghai", TRUE)
    \/ \E u \in FullUsers : CardAction(u, "toggle_enabled", "", "Asia/Shanghai", TRUE)
    \/ \E u \in FullUsers, time \in PresetTimes :
         CardAction(u, "add_preset_time", time, "Asia/Shanghai", TRUE)
    \/ \E u \in FullUsers, time \in PresetTimes :
         CardAction(u, "remove_time", time, "Asia/Shanghai", TRUE)

SpecConc == Init /\ [][NextConc]_vars

\* The restart system: the process is started with any environment; while it
\* runs, subscribers start, set times, pause, and ou1 adds times by card. A
\* process whose startup failed handles nothing until it is started again.
Running == last.op # "startup_failed"
RestartTimeArgs == { <<"18:00">>, <<"09:00", "18:00">> }
RestartCardTimes == { "18:00", "25:00" }

NextStartup ==
    \/ \E settings \in SettingsChoices : Startup(settings)
    \/ Running /\ \E u \in PairUsers : TextCommand(u, "/start", << >>, TRUE)
    \/ Running /\ \E u \in PairUsers, args \in RestartTimeArgs : TextCommand(u, "/time", args, TRUE)
    \/ Running /\ \E u \in PairUsers : TextCommand(u, "/pause", << >>, TRUE)
    \/ Running /\ \E u \in FullUsers, time \in RestartCardTimes :
                     CardAction(u, "add_preset_time", time, "Asia/Shanghai", TRUE)

SpecStartup == Init /\ [][NextStartup]_vars

\* The timezone system: subscribers are provisioned with the timezone of
\* their profile, set delivery times earlier and later than their UTC offset,
\* and toggle delivery, which reloads their jobs; the process restarts.
ZoneTimeArgs == { <<"05:00">>, <<"09:00", "18:00">> }

NextZones ==
    \/ startup_event
    \/ \E u \in PairUsers : \E timezone \in ProfileChoices(u) : PlainText(u, timezone, TRUE)
    \/ \E u \in PairUsers, args \in ZoneTimeArgs : TextCommand(u, "/time", args, TRUE)
    \/ \E u \in PairUsers : \E timezone \in ProfileChoices(u) :
         CardAction(u, "toggle_enabled", "", timezone, TRUE)

SpecZones == Init /\ [][NextZones]_vars

\* The timer system: the clock reaches triggers while card callbacks of
\* subscriber ou1 reload the jobs, and the scheduler runs the due jobs when
\* the event loop gives it the turn; the process restarts.
NextTimer ==
    \/ startup_event
    \/ \E u \in FullUsers : TextCommand(u, "/start", << >>, TRUE)
    \/ \E u \in FullUsers, time \in PresetTimes :
         CardAction(u, "add_preset_time", time, "Asia/Shanghai", TRUE)
    \/ \E u \in FullUsers, time \in PresetTimes :
         CardAction(u, "remove_time", time, "Asia/Shanghai", TRUE)
    \/ \E u \in FullUsers : CardAction(u, "toggle_enabled", "", "Asia/Shanghai", TRUE)
    \/ \E id \in DOMAIN jobs : TriggerDue(id)
    \/ \E id \in DOMAIN jobs : jobs[id].due /\ Fire(id)

SpecTimer == Init /\ [][NextTimer]_vars

\* The shared-prefix system: subscriber ou1 and a subscriber whose id is
\* "ou1_x" start, add a time and toggle delivery, which reloads the jobs of
\* the one who acts; the process restarts.
PrefixUsers == { <<"ou1">>, <<"ou1", "x">> }

NextPrefix ==
    \/ startup_event
    \/ \E u \in PrefixUsers : TextCommand(u, "/start", << >>, TRUE)
    \/ \E u \in PrefixUsers, time \in PresetTimes :
         CardAction(u, "add_preset_time", time, "Asia/Shanghai", TRUE)
    \/ \E u \in PrefixUsers : CardAction(u, "toggle_enabled", "", "Asia/Shanghai", TRUE)

SpecPrefix == Init /\ [][NextPrefix]_vars

\* The overlapping-push system: subscriber ou1 starts, the process restarts
\* (which registers the job), and a fired job and a "/test" push of ou1 run
\* step by step in their two threads.
NextFiles ==
    \/ startup_event
    \/ \E u \in FullUsers : TextCommand(u, "/start", << >>, TRUE)
    \/ \E i \in Invocations, u \in FullUsers : PushBegin(i, u)
    \/ \E i \in Invocations : PushLoadConfig(i)
    \/ \E i \in Invocations : PushWriteKeywords(i)
    \/ \E i \in Invocations : PushFinish(i)

SpecFiles == Init /\ [][NextFiles]_vars

----------------------------------------------------------------------------
(* Properties *)

\* the delivery-time string a job was registered for: the last token of its id
JobTime(id) == id[Len(id)]

\* the (subscriber, delivery time) pairs of the live jobs
LiveJobs(js) == { <<js[id].user_id, JobTime(id)>> : id \in DOMAIN js }

\* the (subscriber, delivery time) pairs the stored configs imply
ImpliedJobs(d) ==
    { p \in Users \X TimeStrings :
        /\ d[p[1]] # NoConfig
        /\ d[p[1]].enabled = 1
        /\ InList(p[2], d[p[1]].push_times) }

\* the live jobs owned by subscriber u, as delivery times
OwnedTimes(js, u) == { JobTime(id) : id \in { i \in DOMAIN js : js[i].user_id = u } }

\* every live job is the one add_user_jobs registers for its pair: the id of
\* the pair, owned by the subscriber, with the trigger of the stored timezone
WellFormedJobs(js, d) ==
    \A id \in DOMAIN js :
        /\ id = JobId(js[id].user_id, JobTime(id))
        /\ d[js[id].user_id] # NoConfig
        /\ js[id].trigger = UtcTrigger(JobTime(id), d[js[id].user_id].timezone)

\* C1: after any sequence of completed inbound operations the live job set is
\* exactly the set of (subscriber, delivery time) pairs of the enabled
\* subscribers' stored configs: no stale job and no missing job.
C1_LiveJobsMatchConfigs == LiveJobs(jobs) = ImpliedJobs(db)

\* C2: an operation that changed a subscriber's stored delivery times or
\* enabled flag ran reload_user_jobs for that subscriber after the save.
C2_EveryScheduleChangeReloads == last.changed => last.reloaded

\* C3: reload_user_jobs run again with the config unchanged gives the job set
\* the first run gave (ids and triggers), and that set holds at most one job
\* per delivery time of the subscriber; in particular the job store a
\* reloading handler leaves behind is not changed by reloading once more.
C3_ReloadOneIdempotent ==
    /\ \A u \in Users :
         LET once == reload_user_jobs(jobs, db, u)
         IN  /\ reload_user_jobs(once, db, u) = once
             /\ \A t \in TimeStrings :
                  Cardinality({ id \in DOMAIN once :
                                  once[id].user_id = u /\ JobTime(id) = t }) <= 1
    /\ last.reloaded => reload_user_jobs(jobs, db, last.user) = jobs

C3_Witness ==
    /\ last.reloaded
    /\ Cardinality(OwnedTimes(jobs, last.user)) = 2
    /\ reload_user_jobs(jobs, db, last.user) = jobs

PushedConfig == db[last.user]

\* C7: a push for a subscriber whose config is absent or disabled returns
\* false, appends no log row, sends nothing and does not call the service.
C7_DisabledPushIsNoOp ==
    (last.push # NoPush /\ (PushedConfig = NoConfig \/ PushedConfig.enabled = 0)) =>
        /\ ~last.push.ret
        /\ last.push.appended = << >>
        /\ ~last.push.sent_text /\ ~last.push.card_tried /\ ~last.push.sent_card
        /\ last.push.crawl = "none"

C7_Witness ==
    /\ last.op = "fire"
    /\ PushedConfig.enabled = 0
    /\ PushedConfig.keywords # << >> /\ PushedConfig.platforms # << >>
    /\ ~last.push.ret

\* C8: a push for an enabled subscriber without keywords (or without sources)
\* returns false, does not call the service, sends no card and appends no
\* log row with status failed.
C8_IncompletePushLogsNoFailure ==
    (/\ last.push # NoPush
     /\ PushedConfig # NoConfig
     /\ PushedConfig.enabled = 1
     /\ (PushedConfig.keywords = << >> \/ PushedConfig.platforms = << >>)) =>
        /\ ~last.push.ret
        /\ last.push.crawl = "none"
        /\ ~last.push.card_tried
        /\ \A i \in 1..Len(last.push.appended) : last.push.appended[i].status # "failed"

\* C9: a push whose service call raised appends exactly one log row, with
\* status failed and the error detail, and returns false.
C9_ServiceErrorLoggedFailed ==
    (last.push # NoPush /\ last.push.crawl = "throws") =>
        /\ ~last.push.ret
        /\ Len(last.push.appended) = 1
        /\ last.push.appended[1].status = "failed"
        /\ last.push.appended[1].error_msg # "None"

\* C10: a push whose service call returned no digest appends exactly one log
\* row (success, count 0), sends no card and returns true; a digest that is
\* present but empty is rendered and handed to the transport instead, and the
\* push returns what the send gave.
C10_NoDigestIsSuccess ==
    /\ (last.push # NoPush /\ last.push.crawl = "empty") =>
          /\ last.push.ret
          /\ Len(last.push.appended) = 1
          /\ last.push.appended[1].status = "success"
          /\ last.push.appended[1].news_count = 0
          /\ ~last.push.card_tried /\ ~last.push.sent_card
    /\ (/\ last.push # NoPush
        /\ last.push.crawl = "ok"
        /\ DOMAIN last.push.digest.hotlist = {}
        /\ last.push.digest.new_items = << >>) =>
          /\ last.push.card_tried
          /\ last.push.ret = last.push.sent_card

C10_Witness ==
    /\ last.push # NoPush
    /\ last.push.crawl = "ok"
    /\ DOMAIN last.push.digest.hotlist = {}
    /\ last.push.sent_card /\ last.push.ret
    /\ last.push.appended[1].news_count = 0

\* C11: when a digest is present, the push returns what the card send gave and
\* appends exactly one log row, with status success exactly when the send
\* succeeded; after a failed send the row has status failed and an error detail.
C11_DigestPushLogsSendResult ==
    (last.push # NoPush /\ last.push.card_tried) =>
        /\ last.push.ret = last.push.sent_card
        /\ Len(last.push.appended) = 1
        /\ (last.push.appended[1].status = "success") = last.push.sent_card
        /\ ~last.push.sent_card =>
              /\ last.push.appended[1].status = "failed"
              /\ last.push.appended[1].error_msg # "None"

C11_Witness ==
    /\ last.push # NoPush /\ last.push.card_tried
    /\ ~last.push.sent_card /\ ~last.push.ret
    /\ last.push.appended[1].status = "failed"
    /\ last.push.appended[1].error_msg = "send"

\* C12: whatever exit path a push took, no temporary file it created is left.
C12_NoTempFileLeft == last.push # NoPush => last.push.temp = {}

\* C13: the push log only grows at its end, by at most one row per step: the
\* log before any step is a prefix of the log after it.
C13_PushLogAppendOnly ==
    [][/\ Len(push_logs') \in { Len(push_logs), Len(push_logs) + 1 }
       /\ SubSeq(push_logs', 1, Len(push_logs)) = push_logs]_vars

C13_Witness ==
    /\ Len(push_logs) = 2
    /\ last.push # NoPush
    /\ last.push.appended = << push_logs[2] >>
    /\ push_logs[1].status # push_logs[2].status

\* the sum of f over the finite set S
RECURSIVE SumOver(_, _)
SumOver(f, S) ==
    IF S = {} THEN 0
    ELSE LET x == CHOOSE y \in S : TRUE IN f[x] + SumOver(f, S \ {x})

\* the items grouped under the keywords of a digest, and those of them flagged
\* new (each of which the digest also lists among its new items)
GroupedMatches(digest) ==
    SumOver([ w \in DOMAIN digest.hotlist |-> Len(digest.hotlist[w]) ],
            DOMAIN digest.hotlist)
NewAmongGrouped(digest) ==
    SumOver([ w \in DOMAIN digest.hotlist |->
                Cardinality({ i \in 1..Len(digest.hotlist[w]) :
                                digest.hotlist[w][i].is_new }) ],
            DOMAIN digest.hotlist)

\* C14: the delivered count is the number of grouped matches plus the number of
\* new items, an item listed both ways counting twice; the card header and the
\* success log row carry this same count.
C14_CountSumsBothLists ==
    (last.push # NoPush /\ last.push.sent_card) =>
        LET count == GroupedMatches(last.push.digest) + NewAmongGrouped(last.push.digest)
        IN  /\ Len(last.push.digest.new_items) = NewAmongGrouped(last.push.digest)
            /\ last.push.card_count = count
            /\ last.push.appended[1].news_count = count

C14_Witness ==
    /\ last.push # NoPush /\ last.push.sent_card
    /\ GroupedMatches(last.push.digest) = 1
    /\ Len(last.push.digest.new_items) = 1
    /\ last.push.appended[1].news_count = 2
    /\ last.push.card_count = 2

\* C15: a test command the router accepts (it answers with success) runs
\* push_to_user for the sender, whatever its letter case or trailing text.
C15_AcceptedTestPushes ==
    (last.op = "/test" /\ handle_test(db, last.user).success) => last.push # NoPush

\* the operations that are the handling of a text message
TextOps == { "keyword_capture", "time_capture", "text" } \cup { Lower(w) : w \in CommandWords }

\* C16: the text message a subscriber sends while in waiting_keyword or
\* waiting_time is handled by the capture branch of that mode, whatever the
\* text: it is neither routed as a command nor answered with the status card.
C16_WaitingConsumesNextText ==
    [][(last'.op \in TextOps /\ user_input_mode[last'.user] # "none") =>
          last'.op = (IF user_input_mode[last'.user] = "waiting_keyword"
                      THEN "keyword_capture" ELSE "time_capture")]_vars

C16_Witness ==
    /\ last.op = "keyword_capture"
    /\ db[last.user] # NoConfig
    /\ InList("/pause", db[last.user].keywords)
    /\ db[last.user].enabled = 1
    /\ user_input_mode[last.user] = "none"

\* C17: once the text message sent in a waiting state has been handled, the
\* sender's input mode is none, also when the handling failed part-way.
C17_CaptureClearsMode ==
    last.op \in { "keyword_capture", "time_capture" } =>
        user_input_mode[last.user] = "none"

\* C18: after the return-to-main-menu button of the input prompt card has been
\* handled, the subscriber's input mode is none.
C18_CancelClearsMode ==
    last.op = "show_main_menu" => user_input_mode[last.user] = "none"

\* C19: no stored keyword list has more than 10 entries; with 10 stored, a new
\* keyword sent as free text or through the keyword form gets the limit reply
\* and leaves the table unchanged, and so does a /keywords list of more than 10.
C19_KeywordLimit ==
    \A u \in Users :
        db[u] # NoConfig =>
            /\ Len(db[u].keywords) <= 10
            /\ Len(db[u].keywords) = 10 =>
                  \A k \in CaptureTexts \ { "" } :
                      ~InList(k, db[u].keywords) =>
                          add_keyword(db, get_user_config(db, u), k)
                              = [ db |-> db, reply |-> "limit", raised |-> FALSE ]
            /\ \A args \in InputKeywordArgs :
                  Len(args) > 10 =>
                      /\ handle_keywords_reply(args) = "limit"
                      /\ handle_keywords(db, u, args).db = db
                      /\ ~handle_keywords(db, u, args).success

C19_Witness ==
    /\ last.op \in { "keyword_capture", "add_keyword_confirm" }
    /\ ~last.changed
    /\ db[last.user] # NoConfig
    /\ Len(db[last.user].keywords) = 10
    /\ db[last.user].keywords[10] = "k10"
    /\ add_keyword(db, get_user_config(db, last.user), "/pause").reply = "limit"

\* C20: handling toggle_source leaves the config store as it was.
C20_ToggleLeavesStore ==
    [][last'.op = "toggle_source" => db' = db]_vars

\* the draft of subscriber u, when user_temp_state holds one
HasDraft(temp, u) == temp[u] # NoState /\ temp[u] # NoSources

\* C21: handling save_sources with a draft makes the draft the committed source
\* list, removes the draft and reloads nothing: the job store is as before.
C21_SaveCommitsDraftOnly ==
    [][(last'.op = "save_sources" /\ HasDraft(user_temp_state, last'.user)) =>
          /\ db'[last'.user].platforms = user_temp_state[last'.user].sources
          /\ ~HasDraft(user_temp_state', last'.user)
          /\ jobs' = jobs
          /\ ~last'.reloaded]_vars

C21_Witness ==
    /\ last.op = "save_sources"
    /\ db[last.user] # NoConfig
    /\ db[last.user].platforms = << "zhihu" >>
    /\ user_temp_state[last.user] = NoSources
    /\ DOMAIN jobs # {}

\* C22: once the subscriber has left the source editor for the main menu, no
\* draft is left that a later save_sources could commit.
C22_LeavingDiscardsDraft ==
    last.op = "show_main_menu" => ~HasDraft(user_temp_state, last.user)

\* C24: every card action, whatever its value and whether or not its
\* precondition holds, an unknown action identifier included, is answered with
\* exactly one message.
C24_OneReplyPerCardAction ==
    \A u \in Users :
        db[u] # NoConfig =>
            \A action \in CardActions \cup InputCardActions \cup { "no_such_action" } :
                \A value \in CardValues(action) :
                    card_replies(user_temp_state, get_user_config(db, u), action, value) = 1

\* C25: saving is an upsert keyed by the subscriber id, so the first card action
\* of a new subscriber, whose config was created and saved earlier in the same
\* handler, persists its mutation: toggle_enabled leaves the new record disabled.
C25_FirstCardActionPersists ==
    [][(/\ last'.op = "toggle_enabled"
        /\ db[last'.user] = NoConfig
        /\ db'[last'.user] # NoConfig) =>
            db'[last'.user].enabled = 0]_vars

\* the stored delivery times of subscriber u that add_user_jobs can schedule
AddableTimes(d, u) ==
    { t \in ListSet(d[u].push_times) : JobAddable(t, d[u].timezone) }

\* C27: when the jobs of an enabled subscriber are re-derived and the stored
\* delivery-time list holds an entry that does not parse, only that entry is
\* skipped: the subscriber owns a job for every other stored time, wherever
\* the malformed entry stands in the list.
C27_MalformedTimeSkippedAlone ==
    (last.reloaded /\ db[last.user] # NoConfig /\ db[last.user].enabled = 1) =>
        OwnedTimes(jobs, last.user) = AddableTimes(db, last.user)

C27_Witness ==
    /\ last.reloaded
    /\ db[last.user] # NoConfig
    /\ db[last.user].enabled = 1
    /\ db[last.user].push_times = << "25:00", "09:00", "0900", "18:00" >>
    /\ OwnedTimes(jobs, last.user) = { "09:00", "18:00" }

\* a list without a repeated element
NoDuplicates(l) == \A i, j \in 1..Len(l) : l[i] = l[j] => i = j

\* C28: every stored delivery time of every subscriber is a valid HH:MM and no
\* delivery-time list holds the same time twice, whichever path stored it.
C28_StoredTimesValidAndDistinct ==
    \A u \in Users :
        db[u] # NoConfig =>
            /\ TimesValid(db[u].push_times)
            /\ NoDuplicates(db[u].push_times)

\* the configs the edit "open the source editor, toggle source twice, save"
\* leaves in the store, started from store d and drafts temp
ToggleTwiceAndSave(d, temp, u, source) ==
    LET config == get_user_config(d, u)
        opened == show_sources_menu(temp, config)
        twice  == toggle_source(toggle_source(opened, config, source), config, source)
    IN  save_sources(d, twice, config).db

\* C23: opening the source editor, toggling one source twice and saving leaves
\* the committed source set as it was, for every committed list the commands
\* can store, a list that names a source twice included.
C23_ToggleTwiceKeepsSources ==
    \A u \in Users :
        db[u] # NoConfig =>
            \A source \in { "github", "v2ex" } :
                ListSet(ToggleTwiceAndSave(db, user_temp_state, u, source)[u].platforms)
                    = ListSet(db[u].platforms)

\* C29: no stored keyword list holds the same keyword twice, whichever path
\* stored it.
C29_StoredKeywordsDistinct ==
    \A u \in Users : db[u] # NoConfig => NoDuplicates(db[u].keywords)

\* the command texts whose argument the handlers reject, and the unknown command
InvalidCommand(word, args) ==
    CASE word = "/keywords" -> args = << >> \/ Len(args) > MaxKeywords
      [] word = "/sources"  -> args = << >> \/ \E i \in 1..Len(args) : PLATFORM_MAPPING(args[i]) = None
      [] word = "/time"     -> args = << >> \/ ~TimesValid(args)
      [] word = "/mode"     -> args = << >> \/ args \notin { <<m>> : m \in valid_modes }
      [] word = "/foo"      -> TRUE
      [] OTHER              -> FALSE

\* the argument lists tried with the commands that take one
FailingArgs ==
    KeywordCsvArgs \cup SourceArgs \cup TimeCsvArgs \cup ModeArgs \cup TimeArgs
        \cup InputKeywordArgs \cup { <<"V2EX", "Gitee", "GitHub">>, <<"daily", "current">> }

\* C30: an unknown command and a command with an invalid argument return
\* success = false and leave the stored configs as they were; a list with one
\* invalid element among valid ones stores none of them. Any command that
\* returns success = false has changed nothing.
C30_FailedCommandChangesNothing ==
    /\ \A u \in FullUsers, word \in { "/keywords", "/sources", "/time", "/mode", "/foo" } :
          \A args \in FailingArgs :
              LET r == handle_command(db, u, word, args)
              IN  /\ InvalidCommand(word, args) => ~r.success
                  /\ ~r.success => r.db = db
    /\ last.op = "/foo" => ~last.changed

C30_Witness ==
    /\ last.op = "/foo"
    /\ db[last.user] # NoConfig
    /\ db[last.user].platforms = << "github", "github" >>
    /\ db[last.user].report_mode = "daily"
    /\ ~handle_command(db, last.user, "/sources", << "GitHub", "Gitee" >>).success
    /\ ~handle_command(db, last.user, "/time", << "09:00", "0900" >>).success

\* the store after card callbacks first and second of subscriber u, each given
\* as <<action, value>>, ran concurrently and the event loop took first first
BothCallbacks(u, first, second) ==
    LET one == card_action_result(db, jobs, user_input_mode, user_temp_state,
                                  u, first[1], first[2], "Asia/Shanghai", TRUE)
    IN  card_action_result(one.db, one.jobs, one.mode, one.temp,
                           u, second[1], second[2], "Asia/Shanghai", TRUE).db

\* C26: when a callback that appends a keyword and a callback that toggles
\* enabled run concurrently for one subscriber, the stored config afterwards
\* holds the new keyword and the flipped flag, whichever ran first: neither
\* update is lost.
C26_ConcurrentMutationsBothStored ==
    \A u \in FullUsers :
        LET before == IF db[u] = NoConfig THEN ProvisionedConfig(u, "Asia/Shanghai")
                      ELSE get_user_config(db, u)
            append == << "add_keyword_confirm", "k10" >>
            toggle == << "toggle_enabled", "" >>
        IN  (~InList("k10", before.keywords) /\ Len(before.keywords) < MaxKeywords) =>
                \A order \in { << append, toggle >>, << toggle, append >> } :
                    LET after == BothCallbacks(u, order[1], order[2])[u]
                    IN  /\ after # NoConfig
                        /\ InList("k10", after.keywords)
                        /\ after.enabled = 1 - before.enabled

\* for a subscriber whose record exists both updates are stored in either order
RecordedSubscriberKeepsBoth ==
    \A u \in FullUsers :
        db[u] # NoConfig =>
            LET before == get_user_config(db, u)
                append == << "add_keyword_confirm", "k10" >>
                toggle == << "toggle_enabled", "" >>
            IN  (~InList("k10", before.keywords) /\ Len(before.keywords) < MaxKeywords) =>
                    \A order \in { << append, toggle >>, << toggle, append >> } :
                        LET after == BothCallbacks(u, order[1], order[2])[u]
                        IN  /\ InList("k10", after.keywords)
                            /\ after.enabled = 1 - before.enabled

\* C31: a text without the command prefix from a subscriber who is not in an
\* input mode leaves an existing config as it is, and for a subscriber without
\* a config it creates the default one first, with the timezone of the profile
\* or Asia/Shanghai when the profile gives none.
C31_PlainTextProvisionsDefault ==
    [][last'.op = "text" =>
          LET u == last'.user
          IN  IF db[u] # NoConfig THEN db' = db
              ELSE /\ db'[u] # NoConfig
                   /\ \E timezone \in ProfileTimezones :
                         db'[u] = Row(ProvisionedConfig(u, timezone))]_vars

\* C32: the first /start of a subscriber without a config stores the default
\* config; any later /start returns success and leaves the stored config as it
\* is, an edited or paused one included, so a second /start changes nothing.
C32_StartIsIdempotentFirstInit ==
    [][last'.op = "/start" =>
          LET u == last'.user
              once == handle_start(db, u)
              again == handle_start(once.db, u)
          IN  /\ once.success /\ again.success
              /\ again.db = once.db
              /\ db' = once.db
              /\ IF db[u] # NoConfig THEN db' = db
                 ELSE db'[u] = Row(UserConfig(u, <<"AI", "blockchain">>, <<"zhihu", "weibo">>,
                                              <<"09:00">>, "Asia/Shanghai", 1))]_vars

C32_Witness ==
    /\ last.op = "/start"
    /\ db[last.user] # NoConfig
    /\ db[last.user].enabled = 0
    /\ db[last.user].push_times = << "18:00", "09:00" >>

\* the (subscriber, delivery time) pairs of the enabled subscribers' stored
\* times that add_user_jobs can schedule
SchedulablePairs(d) ==
    { p \in Users \X TimeStrings :
        /\ d[p[1]] # NoConfig
        /\ d[p[1]].enabled = 1
        /\ p[2] \in AddableTimes(d, p[1]) }

CivilMinutes(t) ==
    CASE t = "05:00" -> 300
      [] t = "09:00" -> 540
      [] t = "18:00" -> 1080

\* C34: the trigger of every live job is a time of day which, moved forward
\* by the UTC offset of the owner's zone, gives the civil delivery time of the
\* job modulo 24 hours, minutes included; Asia/Shanghai 09:00 gives 01:00.
C34_TriggerIsCivilMinusOffset ==
    \A id \in DOMAIN jobs :
        LET u  == jobs[id].user_id
            t  == JobTime(id)
            tr == jobs[id].trigger
        IN  /\ tr.hour \in 0..23 /\ tr.minute \in 0..59
            /\ (tr.hour * 60 + tr.minute + ZoneInfo(db[u].timezone)) % (24 * 60)
                  = CivilMinutes(t)
            /\ (db[u].timezone = "Asia/Shanghai" /\ t = "09:00") =>
                  tr = [ hour |-> 1, minute |-> 0 ]

C34_Witness ==
    /\ \E id \in DOMAIN jobs :
          /\ db[jobs[id].user_id].timezone = "Asia/Kolkata"
          /\ JobTime(id) = "05:00"
          /\ jobs[id].trigger = [ hour |-> 23, minute |-> 30 ]
    /\ \E id \in DOMAIN jobs :
          /\ db[jobs[id].user_id].timezone = "Asia/Shanghai"
          /\ JobTime(id) = "09:00"
          /\ jobs[id].trigger = [ hour |-> 1, minute |-> 0 ]

\* the stored config still asks for the delivery job id stands for
StillScheduled(d, js, id) ==
    LET u == js[id].user_id
    IN  d[u] # NoConfig /\ d[u].enabled = 1 /\ InList(JobTime(id), d[u].push_times)

\* C35: a reload of a subscriber's jobs never makes a due trigger of an
\* unchanged delivery time be missed: a job that is due stays live and due
\* until the scheduler runs it, as long as the process runs and the config
\* still holds its delivery time.
C35_ReloadKeepsDueTrigger ==
    [][\A id \in DOMAIN jobs :
          (/\ jobs[id].due
           /\ last'.op \notin { "fire", "startup" }
           /\ StillScheduled(db', jobs, id)) =>
              (id \in DOMAIN jobs' /\ jobs'[id].due)]_vars

\* C36: an operation that reloads the jobs of one subscriber leaves the jobs
\* of every other subscriber as they were, also when the id of one is the id
\* of the other followed by an underscore and more.
C36_ReloadTouchesOnlyOwnJobs ==
    [][last'.reloaded =>
          \A id \in DOMAIN jobs :
              jobs[id].user_id # last'.user =>
                  (id \in DOMAIN jobs' /\ jobs'[id] = jobs[id])]_vars

\* C37: a push that loads a config with enabled = 0 sends no digest card and
\* does not try to, whatever the transport and the service would do; this holds
\* for a job that fires while still live because the subscriber was paused
\* without a reload of the scheduler.
C37_NoDigestToDisabled ==
    /\ \A u \in Users :
          (db[u] # NoConfig /\ db[u].enabled = 0) =>
              \A env \in PushEnvs :
                  LET out == push_to_user(db, push_logs, u, env)
                  IN  ~out.sent_card /\ ~out.card_tried /\ out.digest = NoResults
    /\ (last.push # NoPush /\ db[last.user] # NoConfig /\ db[last.user].enabled = 0) =>
          (~last.push.sent_card /\ ~last.push.card_tried)

C37_Witness ==
    /\ last.op = "fire"
    /\ db[last.user] # NoConfig
    /\ db[last.user].enabled = 0
    /\ \E id \in DOMAIN jobs : jobs[id].user_id = last.user
    /\ ~last.push.sent_card

\* C38: two overlapping push_to_user invocations for one subscriber do not
\* interfere through their temporary files: the config file an invocation has
\* written and not yet loaded, and the keywords file of an invocation whose
\* service call is under way, are still there.
C38_ScratchFilesNotShared ==
    \A i \in Invocations :
        /\ pushing[i].pc = "config_written" =>
              temp_config_file(pushing[i].user) \in temp_files
        /\ pushing[i].pc = "fetching" =>
              temp_keywords_file(pushing[i].user) \in temp_files

\* C39: a toggle_source of a subscriber with a config is handled in every
\* conversation state: with a draft open the toggle is applied to the draft,
\* and with none open (never opened, or saved already) the draft is seeded
\* from the committed sources and the toggle applied to that.
C39_ToggleAlwaysHandled ==
    [][(last'.op = "toggle_source" /\ db[last'.user] # NoConfig) =>
          LET u == last'.user
              seed == IF HasDraft(user_temp_state, u) THEN user_temp_state[u].sources
                      ELSE db[u].platforms
          IN  /\ HasDraft(user_temp_state', u)
              /\ \E source \in ToggledSources :
                    user_temp_state'[u].sources =
                        IF InList(source, seed) THEN ListRemove(seed, source)
                        ELSE Append(seed, source)]_vars

====
